---- MODULE Spec2Model ----
(***************************************************************************)
(* Model of the double-entry ledger API: the transfer orchestrator of      *)
(* services/ledgerService.js (src/unnamed/part_003), the POST /transfers    *)
(* route (src/src/routes/flows.js), the account routes                      *)
(* (src/unnamed/part_004) and the PostgreSQL storage they run on            *)
(* (SELECT ... FOR UPDATE row locks under isolationLevel "Serializable").   *)
(*                                                                         *)
(* Amounts are exact decimals counted in units of 10^-9, one decimal digit  *)
(* below the DECIMAL(20,8) columns, so that an accepted amount can be       *)
(* finer than what a column stores.                                        *)
(***************************************************************************)
EXTENDS Integers, Sequences, FiniteSets, TLC

VARIABLES
    account,        \* the "Account" table: committed rows by uuid
    rowVersion,     \* per Account row: the commit that last updated it
    transactions,   \* the "Transaction" table: committed rows, in commit order
    ledger,         \* the "LedgerEntry" table: committed rows, in commit order
    lock,           \* row lock of each Account row: its holder or NoOne
    attempts,       \* number of POST /transfers requests received so far
    pc,             \* position of each request handler
    req,            \* the arguments transfer() was called with
    tid,            \* the Transaction id the storage generates for this call
    snap,           \* the snapshot the storage transaction reads from
    wTransaction,   \* uncommitted Transaction rows of each storage transaction
    wLedger,        \* uncommitted LedgerEntry rows of each storage transaction
    wAccount,       \* uncommitted Account.balance updates
    result,         \* the HTTP response of each handler
    rpc,            \* position of the GET /accounts/:id handler
    rid,            \* the Account row that handler found
    rresult,        \* the HTTP response of that handler
    gpc,            \* position of each GET /accounts/:id/ledger handler
    greq,           \* its id, limitNum and offsetNum
    gat,            \* the ledger sizes its two statements ran against
    gresult,        \* its HTTP response
    aresult,        \* the HTTP response of the last POST /accounts
    dresult         \* the outcome of the last DELETE statement on the storage

dbVars == <<account, rowVersion, transactions, ledger>>
txVars == <<req, tid, snap, wTransaction, wLedger, wAccount>>
readVars == <<rpc, rid, rresult, gpc, greq, gat, gresult, aresult, dresult>>
writeVars == <<lock, attempts, pc, req, tid, snap, wTransaction, wLedger,
               wAccount, result>>
balanceVars == <<rpc, rid, rresult>>
ledgerVars == <<gpc, greq, gat, gresult>>
vars == <<account, rowVersion, transactions, ledger, lock, attempts, pc, req,
          tid, snap, wTransaction, wLedger, wAccount, result, rpc, rid,
          rresult, gpc, greq, gat, gresult, aresult, dresult>>

(***************************************************************************)
(* Bounds of the model.                                                    *)
(***************************************************************************)
\* POST /transfers requests in one behaviour.
MaxTransfers == 2
\* Bits of significand a JavaScript number carries. A double carries 53; the
\* model checker's integers end at 2^31, so the width is scaled down and the
\* amounts with it: what matters is that some decimals the columns can hold
\* need more bits than a number has.
SignificandBits == 3

(***************************************************************************)
(* Program constants.                                                      *)
(***************************************************************************)
\* DECIMAL(20,8): a column keeps 8 decimals, 10 model units each.
Quantum == 10

Procs == {"h1", "h2"}
\* The concurrent GET /accounts/:id/ledger requests.
LedgerReaders == {"g1", "g2"}
NoOne == "none"

\* Identifier strings a client may send, in the order Array.prototype.sort
\* puts them (UTF-16 code units: upper case before lower case).  "B" is the
\* upper-case spelling of the uuid "b"; "d" is a well-formed uuid of no row;
\* "e" is the uuid the storage generates for the account POST /accounts
\* creates; "x" is a string that is not a uuid.
IdStrings == <<"B", "a", "b", "c", "d", "e", "x">>
\* The Account rows that exist from the start.
Accounts == {"a", "b", "c"}
NewAccount == "e"
\* Every Account row there can be.
Rows == Accounts \cup {NewAccount}
\* A field the request body does not carry (undefined) or carries empty.
Missing == ""
\* The amounts a client sends: below what a column stores (it rounds to 0),
\* one stored unit, and the seeded balance, which needs more bits than a
\* number has.
Amounts == {4, 10, 90}
\* The (source, destination) pairs a client sends: both directions between
\* two accounts, a second destination, the other spelling of the same uuid
\* as destination and as source of a transfer onto itself, an account that
\* does not exist on either side, and the same string twice.
Pairs == { <<"a", "b">>, <<"b", "a">>, <<"a", "c">>, <<"a", "B">>,
           <<"B", "b">>, <<"a", "d">>, <<"d", "a">>, <<"a", "a">> }
SeedAccount == "a"
SeedAmount == 9 * Quantum

CodeUnitRank(s) == CHOOSE i \in 1..Len(IdStrings) : IdStrings[i] = s

\* $1::uuid and Prisma's @db.Uuid parsing: uuid input is case-insensitive.
uuid(s) == IF s = "B" THEN "b" ELSE s

\* Whether the uuid input function accepts the string.
IsUuid(s) == s \in {"B", "a", "b", "c", "d", "e"}

\* String.prototype.toUpperCase and String.prototype.length of a currency.
toUpperCase(s) == IF s = "usd" THEN "USD" ELSE s
length(s) == Len(s)

\* The JSON value of the amount field: a number or a numeric string (value
\* in model units), the string "NaN", a string that is no number, null, or
\* no field at all.
Number(n) == [kind |-> "number", value |-> n]
NaNText == [kind |-> "NaN", value |-> 0]
Text == [kind |-> "text", value |-> 0]
NullValue == [kind |-> "null", value |-> 0]
Undefined == [kind |-> "undefined", value |-> 0]

\* new Decimal(v) throws [DecimalError] Invalid argument for anything that
\* is not a number, a numeric string or a Decimal.
DecimalThrows(v) == v.kind \in {"text", "null"}
isNaN(v) == v.kind = "NaN"

(***************************************************************************)
(* Numbers.                                                                *)
(***************************************************************************)
RECURSIVE Pow2(_)
Pow2(n) == IF n = 0 THEN 1 ELSE 2 * Pow2(n - 1)

RECURSIVE BitLength(_)
BitLength(n) == IF n = 0 THEN 0 ELSE 1 + BitLength(n \div 2)

\* Decimal.toNumber(): the nearest number that SignificandBits bits can
\* hold, ties to the even significand (IEEE 754 round-to-nearest-even).
NearestNumber(n) ==
    IF BitLength(n) <= SignificandBits THEN n
    ELSE LET ulp == Pow2(BitLength(n) - SignificandBits)
             lo  == (n \div ulp) * ulp
             hi  == lo + ulp
         IN  IF n - lo < hi - n THEN lo
             ELSE IF hi - n < n - lo THEN hi
             ELSE IF (lo \div ulp) % 2 = 0 THEN lo ELSE hi

toNumber(x) == IF x < 0 THEN 0 - NearestNumber(0 - x) ELSE NearestNumber(x)

\* A DECIMAL(20,8) column rounds what it is given to 8 decimals, half away
\* from zero.
RoundHalfUp(n) == ((n + Quantum \div 2) \div Quantum) * Quantum

Decimal208(x) == IF x < 0 THEN 0 - RoundHalfUp(0 - x) ELSE RoundHalfUp(x)

\* What a column holds after the client wrote `amount.toNumber()` to it.
Stored(x) == Decimal208(toNumber(x))

\* Decimal.toFixed(8) of the GET /accounts/:id response.
toFixed8(x) == Decimal208(x)

(***************************************************************************)
(* Rows and responses.                                                     *)
(***************************************************************************)
Null == "null"

TransactionRow(id, type, source, dest, amount, currency, status) ==
    [id |-> id, type |-> type, sourceAccountId |-> source,
     destinationAccountId |-> dest, amount |-> amount, currency |-> currency,
     status |-> status]

LedgerRow(id, accountId, transactionId, entryType, amount, currency) ==
    [id |-> id, accountId |-> accountId, transactionId |-> transactionId,
     entryType |-> entryType, amount |-> amount, currency |-> currency]

NoRow == TransactionRow(0 - 1, Null, Null, Null, 0, Null, Null)
NoRequest == [sourceAccountId |-> Null, destinationAccountId |-> Null,
              amount |-> 0, currency |-> Null]
NoSnapshot == [transactions |-> 0, ledger |-> 0, accounts |-> {}]

Response(status, error, body) ==
    [status |-> status, error |-> error, body |-> body]
NoResponse == Response(0, "", NoRow)

NoDelete == "none"
NoLedgerRequest == [id |-> Null, limit |-> 0, offset |-> 0]

\* Mutant: hasMore says whether the page is full.
LedgerResponseFullPage(status, entries, total, limit, offset) ==
    [status |-> status, entries |-> entries, total |-> total,
     limit |-> limit, offset |-> offset,
     hasMore |-> Len(entries) = limit]

LedgerResponse(status, entries, total, limit, offset) ==
    [status |-> status, entries |-> entries, total |-> total,
     limit |-> limit, offset |-> offset,
     hasMore |-> offset + Len(entries) < total]
NoLedgerResponse == LedgerResponse(0, <<>>, 0, 0, 0)
LedgerInternalError == LedgerResponse(500, <<>>, 0, 0, 0)

(***************************************************************************)
(* services/ledgerService.js: the balance calculator.                      *)
(***************************************************************************)
\* tx.ledgerEntry.findMany({ where: { accountId } })
findMany(entries, accountId) ==
    SelectSeq(entries, LAMBDA e : e.accountId = uuid(accountId))

\* Mutant: debits are not subtracted.
RECURSIVE FoldBalanceCreditsOnly(_, _)
FoldBalanceCreditsOnly(entries, balance) ==
    IF entries = <<>> THEN balance
    ELSE FoldBalanceCreditsOnly(Tail(entries),
             IF Head(entries).entryType = "credit"
             THEN balance + Head(entries).amount ELSE balance)

RECURSIVE FoldBalance(_, _)
FoldBalance(entries, balance) ==
    IF entries = <<>> THEN balance
    ELSE LET entry == Head(entries)
         IN  FoldBalance(Tail(entries),
                 IF entry.entryType = "credit" THEN balance + entry.amount
                 ELSE IF entry.entryType = "debit" THEN balance - entry.amount
                 ELSE balance)

getBalance(entries, accountId) == FoldBalance(findMany(entries, accountId), 0)

(***************************************************************************)
(* The storage transaction of one transfer() call.                         *)
(***************************************************************************)
\* [sourceAccountId, destinationAccountId].sort()
lockedIds(sourceAccountId, destinationAccountId) ==
    IF CodeUnitRank(destinationAccountId) < CodeUnitRank(sourceAccountId)
    THEN <<destinationAccountId, sourceAccountId>>
    ELSE <<sourceAccountId, destinationAccountId>>

\* Mutant: the sufficiency check never rejects.
InsufficientFundsNever(sourceBalance, amount) == FALSE

\* sourceBalance.lessThan(amount)
InsufficientFunds(sourceBalance, amount) == sourceBalance < amount

\* The LedgerEntry rows a storage transaction reads: the rows committed when
\* its snapshot was taken, then its own writes.
VisibleLedger(committed, taken, own) == SubSeq(committed, 1, taken) \o own

Visible(p) == VisibleLedger(ledger, snap[p].ledger, wLedger[p])

\* account.findUnique({ where: { id } }) over the rows the reader sees.
findUnique(rows, id) == uuid(id) \in rows

\* Mutant: the record is not part of what the commit makes durable.
CommitTransactionsDropsRecord(table, written) == table

\* Mutant: the commit replaces the table by the rows written.
CommitTransactionsOverwrites(table, written) == written

\* COMMIT: the rows a transaction wrote join the tables together.
CommitTransactions(table, written) == table \o written

\* Mutant: the writes are not one atomic unit, the second entry is lost.
CommitLedgerFirstWriteOnly(table, written) ==
    table \o SubSeq(written, 1, 1)

CommitLedger(table, written) == table \o written

\* Mutant: the update has no WHERE clause, every row takes the balance.
CommitAccountsAll(table, written) ==
    IF written = <<>> THEN table
    ELSE [a \in DOMAIN table |->
             [table[a] EXCEPT !.balance = written[Len(written)][2]]]

RECURSIVE CommitAccounts(_, _)
CommitAccounts(table, written) ==
    IF written = <<>> THEN table
    ELSE CommitAccounts(
             [table EXCEPT ![Head(written)[1]].balance = Head(written)[2]],
             Tail(written))

\* Mutant: the record written before the failure stays, marked failed.
RollbackTransactionsMarksFailed(table, written) ==
    table \o [i \in 1..Len(written) |-> [written[i] EXCEPT !.status = "failed"]]

\* ROLLBACK: the rows a transaction wrote are dropped.
RollbackTransactions(table, written) == table

\* Mutant: the entries written before the failure stay in the table.
RollbackLedgerKeepsWrites(table, written) == table \o written

RollbackLedger(table, written) == table
RollbackAccounts(table, written) == table

Touched(written) == {written[i][1] : i \in 1..Len(written)}

\* Mutant: the end of a storage transaction leaves its locks held.
ReleaseKeepsLocks(p) == lock

Release(p) == [a \in Rows |-> IF lock[a] = p THEN NoOne ELSE lock[a]]

InTransaction(p) ==
    pc[p] \in {"lock1", "lock2", "check", "createTransaction", "createDebit",
               "createCredit", "updateBalances", "commit"}

\* A throw inside prisma.$transaction: roll back, release, respond.
Abort(p, response) ==
    /\ pc' = [pc EXCEPT ![p] = "done"]
    /\ result' = [result EXCEPT ![p] = response]
    /\ transactions' = RollbackTransactions(transactions, wTransaction[p])
    /\ ledger' = RollbackLedger(ledger, wLedger[p])
    /\ account' = RollbackAccounts(account, wAccount[p])
    /\ lock' = Release(p)
    /\ wTransaction' = [wTransaction EXCEPT ![p] = <<>>]
    /\ wLedger' = [wLedger EXCEPT ![p] = <<>>]
    /\ wAccount' = [wAccount EXCEPT ![p] = <<>>]
    /\ UNCHANGED <<rowVersion, attempts, req, tid, snap, readVars>>

InternalError == Response(500, "Internal error", NoRow)

(***************************************************************************)
(* POST /transfers (routes/flows.js) and transfer() (ledgerService.js).    *)
(***************************************************************************)
\* tx.transaction.create({ data: { type: "transfer", ... } })
transactionData(request, id) ==
    TransactionRow(id, "transfer", uuid(request.sourceAccountId),
                   uuid(request.destinationAccountId), Stored(request.amount),
                   request.currency, "completed")

\* Mutant: the debit carries the requested decimal, the credit what the
\* column stores of the number.
debitDataExact(request, transaction, id) ==
    LedgerRow(id, uuid(request.sourceAccountId), transaction.id, "debit",
              request.amount, request.currency)

\* tx.ledgerEntry.create({ data: { accountId: sourceAccountId, ... } })
debitData(request, transaction, id) ==
    LedgerRow(id, uuid(request.sourceAccountId), transaction.id, "debit",
              Stored(request.amount), request.currency)

\* Mutant: the credit is booked on the source account.
creditDataOnSource(request, transaction, id) ==
    LedgerRow(id, uuid(request.sourceAccountId), transaction.id, "credit",
              Stored(request.amount), request.currency)

\* tx.ledgerEntry.create({ data: { accountId: destinationAccountId, ... } })
creditData(request, transaction, id) ==
    LedgerRow(id, uuid(request.destinationAccountId), transaction.id,
              "credit", Stored(request.amount), request.currency)

BadRequest(error) == Response(400, error, NoRow)
UnprocessableEntity(error) == Response(422, error, NoRow)

\* The route answers without calling transfer().
Respond(p, response) ==
    /\ result' = [result EXCEPT ![p] = response]
    /\ pc' = [pc EXCEPT ![p] = "done"]
    /\ UNCHANGED txVars

\* The route's validation, then the first statement of the storage
\* transaction, whose start takes the snapshot the transaction reads from.
\* An error thrown inside the try block has no status and is answered 500.
PostTransfer(p, sourceAccountId, destinationAccountId, amount, currency) ==
    /\ pc[p] = "idle"
    /\ attempts < MaxTransfers
    /\ attempts' = attempts + 1
    /\ IF \/ sourceAccountId = Missing \/ destinationAccountId = Missing
          \/ amount = Undefined \/ currency = Missing
       THEN Respond(p, BadRequest(
                "sourceAccountId, destinationAccountId, amount, currency required"))
       ELSE IF sourceAccountId = destinationAccountId
       THEN Respond(p, BadRequest(
                "sourceAccountId and destinationAccountId must be different"))
       ELSE IF DecimalThrows(amount)
       THEN Respond(p, InternalError)
       ELSE IF isNaN(amount) \/ amount.value <= 0
       THEN Respond(p, BadRequest("amount must be a positive number"))
       ELSE IF length(currency) # 3
       THEN Respond(p, BadRequest("currency must be a 3-letter code"))
       ELSE /\ req' = [req EXCEPT ![p] =
                   [sourceAccountId |-> sourceAccountId,
                    destinationAccountId |-> destinationAccountId,
                    amount |-> amount.value,
                    currency |-> toUpperCase(currency)]]
            /\ tid' = [tid EXCEPT ![p] = attempts + 1]
            /\ snap' = [snap EXCEPT ![p] =
                   [transactions |-> Len(transactions), ledger |-> Len(ledger),
                    accounts |-> DOMAIN account]]
            /\ pc' = [pc EXCEPT ![p] = "lock1"]
            /\ UNCHANGED <<wTransaction, wLedger, wAccount, result>>
    /\ UNCHANGED <<dbVars, lock, readVars>>

\* Mutant: the lock is granted on a row that changed after the snapshot.
LockRowIgnoresConflict(p, i, next) ==
    LET id  == lockedIds(req[p].sourceAccountId,
                         req[p].destinationAccountId)[i]
        row == uuid(id)
    IN  IF ~IsUuid(id)
        THEN Abort(p, InternalError)
        ELSE IF row \notin snap[p].accounts
        THEN /\ pc' = [pc EXCEPT ![p] = next]
             /\ UNCHANGED <<dbVars, lock, attempts, txVars, result, readVars>>
        ELSE /\ lock[row] \in {NoOne, p}
             /\ lock' = [lock EXCEPT ![row] = p]
             /\ pc' = [pc EXCEPT ![p] = next]
             /\ UNCHANGED <<dbVars, attempts, txVars, result, readVars>>

\* Mutant: the statement selects the row without FOR UPDATE.
LockRowTakesNoLock(p, i, next) ==
    LET id  == lockedIds(req[p].sourceAccountId,
                         req[p].destinationAccountId)[i]
    IN  IF ~IsUuid(id)
        THEN Abort(p, InternalError)
        ELSE /\ pc' = [pc EXCEPT ![p] = next]
             /\ UNCHANGED <<dbVars, lock, attempts, txVars, result, readVars>>

\* Mutant: the lock statement locks the table, not the row.
LockRowLocksTable(p, i, next) ==
    LET id  == lockedIds(req[p].sourceAccountId,
                         req[p].destinationAccountId)[i]
        row == uuid(id)
    IN  IF ~IsUuid(id)
        THEN Abort(p, InternalError)
        ELSE IF row \notin snap[p].accounts
        THEN /\ pc' = [pc EXCEPT ![p] = next]
             /\ UNCHANGED <<dbVars, lock, attempts, txVars, result, readVars>>
        ELSE /\ \A a \in Rows : lock[a] \in {NoOne, p}
             /\ IF rowVersion[row] > snap[p].transactions
                THEN Abort(p, InternalError)
                ELSE /\ lock' = [a \in Rows |-> p]
                     /\ pc' = [pc EXCEPT ![p] = next]
                     /\ UNCHANGED <<dbVars, attempts, txVars, result, readVars>>

\* SELECT 1 FROM "Account" WHERE "id" = $1::uuid FOR UPDATE.  A string that
\* is not a uuid fails the cast: the statement raises an error, which reaches
\* the client as 500.  No row in the snapshot, no lock.  A row another
\* transaction holds makes the statement wait.  A row that a transaction
\* committed after this one's snapshot has updated ends this one with a
\* serialization failure, which reaches the client as 500.
LockRow(p, i, next) ==
    LET id  == lockedIds(req[p].sourceAccountId,
                         req[p].destinationAccountId)[i]
        row == uuid(id)
    IN  IF ~IsUuid(id)
        THEN Abort(p, InternalError)
        ELSE IF row \notin snap[p].accounts
        THEN /\ pc' = [pc EXCEPT ![p] = next]
             /\ UNCHANGED <<dbVars, lock, attempts, txVars, result, readVars>>
        ELSE /\ lock[row] \in {NoOne, p}
             /\ IF rowVersion[row] > snap[p].transactions
                THEN Abort(p, InternalError)
                ELSE /\ lock' = [lock EXCEPT ![row] = p]
                     /\ pc' = [pc EXCEPT ![p] = next]
                     /\ UNCHANGED <<dbVars, attempts, txVars, result, readVars>>

Lock1(p) == pc[p] = "lock1" /\ LockRow(p, 1, "lock2")
Lock2(p) == pc[p] = "lock2" /\ LockRow(p, 2, "check")

\* Fetch both accounts, derive the source balance, decide.
Check(p) ==
    /\ pc[p] = "check"
    /\ IF ~findUnique(snap[p].accounts, req[p].sourceAccountId)
          \/ ~findUnique(snap[p].accounts, req[p].destinationAccountId)
       THEN Abort(p, UnprocessableEntity("Account does not exist"))
       ELSE IF InsufficientFunds(
                   getBalance(Visible(p), req[p].sourceAccountId),
                   req[p].amount)
       THEN Abort(p, UnprocessableEntity("insufficient funds"))
       ELSE /\ pc' = [pc EXCEPT ![p] = "createTransaction"]
            /\ UNCHANGED <<dbVars, lock, attempts, txVars, result, readVars>>

CreateTransaction(p) ==
    /\ pc[p] = "createTransaction"
    /\ wTransaction' = [wTransaction EXCEPT ![p] =
                            <<transactionData(req[p], tid[p])>>]
    /\ pc' = [pc EXCEPT ![p] = "createDebit"]
    /\ UNCHANGED <<dbVars, lock, attempts, req, tid, snap, wLedger, wAccount,
                   result, readVars>>

CreateDebit(p) ==
    /\ pc[p] = "createDebit"
    /\ wLedger' = [wLedger EXCEPT ![p] = Append(@,
           debitData(req[p], wTransaction[p][1], 2 * tid[p] - 1))]
    /\ pc' = [pc EXCEPT ![p] = "createCredit"]
    /\ UNCHANGED <<dbVars, lock, attempts, req, tid, snap, wTransaction,
                   wAccount, result, readVars>>

CreateCredit(p) ==
    /\ pc[p] = "createCredit"
    /\ wLedger' = [wLedger EXCEPT ![p] = Append(@,
           creditData(req[p], wTransaction[p][1], 2 * tid[p]))]
    /\ pc' = [pc EXCEPT ![p] = "updateBalances"]
    /\ UNCHANGED <<dbVars, lock, attempts, req, tid, snap, wTransaction,
                   wAccount, result, readVars>>

\* Both balances are derived first, then the source row and the destination
\* row are updated, in that order.
UpdateBalances(p) ==
    /\ pc[p] = "updateBalances"
    /\ wAccount' = [wAccount EXCEPT ![p] =
           << <<uuid(req[p].sourceAccountId),
                Stored(getBalance(Visible(p), req[p].sourceAccountId))>>,
              <<uuid(req[p].destinationAccountId),
                Stored(getBalance(Visible(p), req[p].destinationAccountId))>> >>]
    /\ pc' = [pc EXCEPT ![p] = "commit"]
    /\ UNCHANGED <<dbVars, lock, attempts, req, tid, snap, wTransaction,
                   wLedger, result, readVars>>

\* The callback returned: COMMIT, and the created Transaction is the answer.
Commit(p) ==
    /\ pc[p] = "commit"
    /\ transactions' = CommitTransactions(transactions, wTransaction[p])
    /\ ledger' = CommitLedger(ledger, wLedger[p])
    /\ account' = CommitAccounts(account, wAccount[p])
    /\ rowVersion' = [a \in Rows |->
           IF a \in Touched(wAccount[p]) THEN Len(transactions) + 1
           ELSE rowVersion[a]]
    /\ lock' = Release(p)
    /\ result' = [result EXCEPT ![p] = Response(201, "", wTransaction[p][1])]
    /\ wTransaction' = [wTransaction EXCEPT ![p] = <<>>]
    /\ wLedger' = [wLedger EXCEPT ![p] = <<>>]
    /\ wAccount' = [wAccount EXCEPT ![p] = <<>>]
    /\ pc' = [pc EXCEPT ![p] = "done"]
    /\ UNCHANGED <<attempts, req, tid, snap, readVars>>

\* Mutant: the error is swallowed and the request answered as created.
FailSwallowed(p) ==
    /\ InTransaction(p)
    /\ Abort(p, Response(201, "", NoRow))

\* Any statement of the storage transaction, the COMMIT included, may fail:
\* a lock wait that times out, a serialization failure the engine raises,
\* a lost connection.  The error has no status: the client gets 500.
Fail(p) ==
    /\ InTransaction(p)
    /\ Abort(p, InternalError)

\* The lock statement of p waits for a row lock that q holds.
Waits(p, q) ==
    /\ p # q
    /\ pc[p] \in {"lock1", "lock2"}
    /\ LET row == uuid(lockedIds(req[p].sourceAccountId,
                                 req[p].destinationAccountId)
                           [IF pc[p] = "lock1" THEN 1 ELSE 2])
       IN  row \in Rows /\ lock[row] = q

RECURSIVE WaitsTransitively(_, _, _)
WaitsTransitively(p, q, n) ==
    \/ Waits(p, q)
    \/ n > 0 /\ \E r \in Procs : Waits(p, r) /\ WaitsTransitively(r, q, n - 1)

\* The storage's deadlock detector: a transaction whose lock statement has
\* waited deadlock_timeout in a cycle of waits is ended with an error, which
\* reaches the client as 500.
Deadlock(p) ==
    /\ WaitsTransitively(p, p, Cardinality(Procs))
    /\ Abort(p, InternalError)

\* The response is sent; the handler is free for the next request.
Return(p) ==
    /\ pc[p] = "done"
    /\ pc' = [pc EXCEPT ![p] = "idle"]
    /\ req' = [req EXCEPT ![p] = NoRequest]
    /\ tid' = [tid EXCEPT ![p] = 0]
    /\ snap' = [snap EXCEPT ![p] = NoSnapshot]
    /\ result' = [result EXCEPT ![p] = NoResponse]
    /\ UNCHANGED <<dbVars, lock, attempts, wTransaction, wLedger, wAccount,
                   readVars>>

(***************************************************************************)
(* The tables as the test suite seeds them: the accounts, and one           *)
(* initial_deposit with its credit entry and the stored balance.           *)
(***************************************************************************)
\* userId: "userA", "userB" of the seeded accounts.
SeedUser(a) == "user" \o a

Init ==
    /\ account = [a \in Accounts |->
           [userId |-> SeedUser(a), accountType |-> "checking",
            currency |-> "USD", status |-> "active",
            balance |-> IF a = SeedAccount THEN SeedAmount ELSE 0]]
    /\ transactions = <<TransactionRow(0, "initial_deposit", Null, SeedAccount,
                                       SeedAmount, "USD", "completed")>>
    /\ ledger = <<LedgerRow(0, SeedAccount, 0, "credit", SeedAmount, "USD")>>
    /\ rowVersion = [a \in Rows |-> IF a = SeedAccount THEN 1 ELSE 0]
    /\ lock = [a \in Rows |-> NoOne]
    /\ attempts = 0
    /\ pc = [p \in Procs |-> "idle"]
    /\ req = [p \in Procs |-> NoRequest]
    /\ tid = [p \in Procs |-> 0]
    /\ snap = [p \in Procs |-> NoSnapshot]
    /\ wTransaction = [p \in Procs |-> <<>>]
    /\ wLedger = [p \in Procs |-> <<>>]
    /\ wAccount = [p \in Procs |-> <<>>]
    /\ result = [p \in Procs |-> NoResponse]
    /\ rpc = "idle"
    /\ rid = Null
    /\ rresult = NoResponse
    /\ gpc = [g \in LedgerReaders |-> "idle"]
    /\ greq = [g \in LedgerReaders |-> NoLedgerRequest]
    /\ gat = [g \in LedgerReaders |-> <<0, 0>>]
    /\ gresult = [g \in LedgerReaders |-> NoLedgerResponse]
    /\ aresult = NoResponse
    /\ dresult = NoDelete

TransferOf(p, pairs, amounts, currencies) ==
    \/ \E sd \in pairs, m \in amounts, c \in currencies :
           PostTransfer(p, sd[1], sd[2], m, c)
    \/ Lock1(p)
    \/ Lock2(p)
    \/ Check(p)
    \/ CreateTransaction(p)
    \/ CreateDebit(p)
    \/ CreateCredit(p)
    \/ UpdateBalances(p)
    \/ Commit(p)
    \/ Return(p)

Transfer(p) == TransferOf(p, Pairs, {Number(m) : m \in Amounts}, {"USD"})

(***************************************************************************)
(* GET /accounts/:id (routes/accounts.js), outside any storage             *)
(* transaction: each statement reads what is committed when it runs.       *)
(***************************************************************************)
ReadIds == {"a", "b", "d", "e"}

AccountBody(id, balance) ==
    [id |-> id, userId |-> account[id].userId,
     accountType |-> account[id].accountType,
     currency |-> account[id].currency,
     status |-> account[id].status, balance |-> balance]

\* prisma.account.findUnique({ where: { id: req.params.id } })
GetAccount(id) ==
    /\ rpc = "idle"
    /\ IF ~findUnique(DOMAIN account, id)
       THEN /\ rresult' = Response(404, "Account not found", NoRow)
            /\ rpc' = "done"
            /\ UNCHANGED rid
       ELSE /\ rid' = uuid(id)
            /\ rpc' = "balance"
            /\ UNCHANGED rresult
    /\ UNCHANGED <<dbVars, writeVars, ledgerVars, aresult, dresult>>

\* Mutant: the read writes the balance it derived back to the account row.
GetAccountBalanceStoresBalance ==
    /\ rpc = "balance"
    /\ rresult' = Response(200, "",
                      AccountBody(rid, toFixed8(getBalance(ledger, rid))))
    /\ rpc' = "done"
    /\ account' = [account EXCEPT ![rid].balance =
                       Stored(getBalance(ledger, rid))]
    /\ rowVersion' = [rowVersion EXCEPT ![rid] = Len(transactions) + 1]
    /\ UNCHANGED <<transactions, ledger, writeVars, rid, ledgerVars, aresult, dresult>>

\* getBalance(prisma, acct.id, acct.currency), then the response.
GetAccountBalance ==
    /\ rpc = "balance"
    /\ rresult' = Response(200, "",
                      AccountBody(rid, toFixed8(getBalance(ledger, rid))))
    /\ rpc' = "done"
    /\ UNCHANGED <<dbVars, writeVars, rid, ledgerVars, aresult, dresult>>

ReadReturn ==
    /\ rpc = "done"
    /\ rpc' = "idle"
    /\ rid' = Null
    /\ rresult' = NoResponse
    /\ UNCHANGED <<dbVars, writeVars, ledgerVars, aresult, dresult>>

Read ==
    \/ \E id \in ReadIds : GetAccount(id)
    \/ GetAccountBalance
    \/ ReadReturn

(***************************************************************************)
(* GET /accounts/:id/ledger (routes/accounts.js): a count statement, then   *)
(* a findMany statement ordered by createdAt, newest first.                *)
(***************************************************************************)
\* parseInt(limit, 10) || 100, at most 1000; parseInt(offset, 10) || 0.  The
\* query parameters are given as the integers they parse to, 0 for a
\* parameter that is absent or parses to 0 or to NaN.
DefaultLimit == 100
MaxLimit == 1000
Min(x, y) == IF x < y THEN x ELSE y
limitNum(limit) == Min(IF limit = 0 THEN DefaultLimit ELSE limit, MaxLimit)
offsetNum(offset) == offset

LedgerIds == {"b"}
Limits == {0, 1}
Offsets == {0, 1}

\* "createdAt" TIMESTAMP(3) NOT NULL DEFAULT CURRENT_TIMESTAMP: the rows one
\* storage transaction writes may carry the same instant (CURRENT_TIMESTAMP
\* is the start of the transaction; a client clock ticks in milliseconds).
\* Rows of different transactions are taken to carry different instants, in
\* the order of the commits.
createdAt(entry) ==
    CHOOSE i \in 1..Len(transactions) :
        transactions[i].id = entry.transactionId

\* Mutant: the rows come oldest first.
orderByOldestFirst(entries) ==
    LET n == Len(entries)
        orders == {f \in [1..n -> 1..n] :
                      /\ \A i \in 1..n : \A j \in 1..n : f[i] = f[j] => i = j
                      /\ \A i \in 1..n : \A j \in 1..n :
                             i < j => createdAt(entries[f[i]])
                                          <= createdAt(entries[f[j]])}
    IN  {[i \in 1..n |-> entries[f[i]]] : f \in orders}

\* orderBy: { createdAt: 'desc' } names no second key: rows with the same
\* createdAt come in an order the storage does not specify.
orderBy(entries) ==
    LET n == Len(entries)
        orders == {f \in [1..n -> 1..n] :
                      /\ \A i \in 1..n : \A j \in 1..n : f[i] = f[j] => i = j
                      /\ \A i \in 1..n : \A j \in 1..n :
                             i < j => createdAt(entries[f[i]])
                                          >= createdAt(entries[f[j]])}
    IN  {[i \in 1..n |-> entries[f[i]]] : f \in orders}

Reverse(entries) ==
    [i \in 1..Len(entries) |-> entries[Len(entries) + 1 - i]]

\* take: limitNum, skip: offsetNum.  The client reads a negative take as
\* "from the end of the list": it skips and takes -take rows from the last
\* row backwards and returns them in the order asked for.
takeSkip(entries, take, skip) ==
    IF skip >= Len(entries) THEN <<>>
    ELSE IF take < 0
    THEN Reverse(SubSeq(Reverse(entries), skip + 1,
                        Min(skip - take, Len(entries))))
    ELSE SubSeq(entries, skip + 1, Min(skip + take, Len(entries)))

\* Mutant: the route looks the account up first and answers 404 without it.
GetLedgerCountFindsAccount(g, id, limit, offset) ==
    /\ gpc[g] = "idle"
    /\ greq' = [greq EXCEPT ![g] = [id |-> id, limit |-> limitNum(limit),
                                    offset |-> offsetNum(offset)]]
    /\ gat' = [gat EXCEPT ![g] = <<Len(ledger), 0>>]
    /\ IF ~findUnique(DOMAIN account, id)
       THEN /\ gresult' = [gresult EXCEPT ![g] =
                   LedgerResponse(404, <<>>, 0, 0, 0)]
            /\ gpc' = [gpc EXCEPT ![g] = "done"]
       ELSE /\ gresult' = [gresult EXCEPT ![g] =
                   LedgerResponse(0, <<>>, Len(findMany(ledger, id)), 0, 0)]
            /\ gpc' = [gpc EXCEPT ![g] = "entries"]
    /\ UNCHANGED <<dbVars, writeVars, balanceVars, aresult, dresult>>

\* prisma.ledgerEntry.count({ where: { accountId: id } })
GetLedgerCount(g, id, limit, offset) ==
    /\ gpc[g] = "idle"
    /\ greq' = [greq EXCEPT ![g] = [id |-> id, limit |-> limitNum(limit),
                                    offset |-> offsetNum(offset)]]
    /\ gresult' = [gresult EXCEPT ![g] =
           LedgerResponse(0, <<>>, Len(findMany(ledger, id)), 0, 0)]
    /\ gat' = [gat EXCEPT ![g] = <<Len(ledger), 0>>]
    /\ gpc' = [gpc EXCEPT ![g] = "entries"]
    /\ UNCHANGED <<dbVars, writeVars, balanceVars, aresult, dresult>>

\* prisma.ledgerEntry.findMany({ where, orderBy, take, skip }), then the
\* response.  The client refuses a negative skip: the error reaches the
\* error handler, which answers 500.
GetLedgerEntries(g) ==
    /\ gpc[g] = "entries"
    /\ IF greq[g].offset < 0
       THEN gresult' = [gresult EXCEPT ![g] = LedgerInternalError]
       ELSE \E entries \in orderBy(findMany(ledger, greq[g].id)) :
                gresult' = [gresult EXCEPT ![g] =
                    LedgerResponse(200,
                        takeSkip(entries, greq[g].limit, greq[g].offset),
                        gresult[g].total, greq[g].limit, greq[g].offset)]
    /\ gat' = [gat EXCEPT ![g] = <<gat[g][1], Len(ledger)>>]
    /\ gpc' = [gpc EXCEPT ![g] = "done"]
    /\ UNCHANGED <<dbVars, writeVars, balanceVars, greq, aresult, dresult>>

GetLedgerReturn(g) ==
    /\ gpc[g] = "done"
    /\ gpc' = [gpc EXCEPT ![g] = "idle"]
    /\ greq' = [greq EXCEPT ![g] = NoLedgerRequest]
    /\ gat' = [gat EXCEPT ![g] = <<0, 0>>]
    /\ gresult' = [gresult EXCEPT ![g] = NoLedgerResponse]
    /\ UNCHANGED <<dbVars, writeVars, balanceVars, aresult, dresult>>

GetLedger(g) ==
    \/ \E id \in LedgerIds, limit \in Limits, offset \in Offsets :
           GetLedgerCount(g, id, limit, offset)
    \/ GetLedgerEntries(g)
    \/ GetLedgerReturn(g)

\* The query parameters as the strings of the URL: left out, not a number,
\* zero, in range, negative, above the maximum.
NotANumber == [kind |-> "NaN", value |-> 0]

parseInt(s) ==
    CASE s = "0"    -> Number(0)
      [] s = "1"    -> Number(1)
      [] s = "100"  -> Number(DefaultLimit)
      [] s = "-1"   -> Number(0 - 1)
      [] s = "1001" -> Number(MaxLimit + 1)
      [] OTHER      -> NotANumber

\* const { limit = '100', offset = '0' } = req.query, and parseInt(..., 10)
\* as the integer the existing steps take: 0 for NaN.
QueryInt(s, default) ==
    LET n == parseInt(IF s = Missing THEN default ELSE s)
    IN  IF n.kind = "NaN" THEN 0 ELSE n.value

QueryLimits == {Missing, "abc", "0", "1", "-1", "1001"}
QueryOffsets == {Missing, "abc", "1", "-1"}
QueryIds == {"b", "d"}

GetLedgerQuery(g) ==
    \/ \E id \in QueryIds, limit \in QueryLimits, offset \in QueryOffsets :
           GetLedgerCount(g, id, QueryInt(limit, "100"), QueryInt(offset, "0"))
    \/ GetLedgerEntries(g)
    \/ GetLedgerReturn(g)

(***************************************************************************)
(* POST /accounts (routes/accounts.js).                                    *)
(***************************************************************************)
\* String.prototype.trim
trim(s) == IF s = " " THEN "" ELSE s

\* The request bodies: complete, a blank userId, a currency of two
\* characters.
AccountBodies == { <<"u", "checking", "usd">>, <<" ", "checking", "USD">>,
                   <<"u", "checking", "US">> }

\* Mutant: the row is created without the column default of "status".
accountDataPending(userId, accountType, currency) ==
    [userId |-> trim(userId), accountType |-> trim(accountType),
     currency |-> toUpperCase(currency), status |-> "pending", balance |-> 0]

\* prisma.account.create({ data: { ..., balance: 0 } }): "status" takes its
\* default, the id is generated.
accountData(userId, accountType, currency) ==
    [userId |-> trim(userId), accountType |-> trim(accountType),
     currency |-> toUpperCase(currency), status |-> "active", balance |-> 0]

PostAccount(userId, accountType, currency) ==
    /\ IF userId = Missing \/ accountType = Missing \/ currency = Missing
       THEN /\ aresult' =
                   BadRequest("userId, accountType, currency required")
            /\ UNCHANGED account
       ELSE IF trim(userId) = ""
       THEN /\ aresult' = BadRequest("userId must be a non-empty string")
            /\ UNCHANGED account
       ELSE IF trim(accountType) = ""
       THEN /\ aresult' = BadRequest("accountType must be a non-empty string")
            /\ UNCHANGED account
       ELSE IF length(currency) # 3
       THEN /\ aresult' = BadRequest("currency must be a 3-letter code")
            /\ UNCHANGED account
       ELSE /\ NewAccount \notin DOMAIN account
            /\ account' = account @@
                   (NewAccount :> accountData(userId, accountType, currency))
            /\ aresult' = Response(201, "",
                   [id |-> NewAccount, userId |-> account'[NewAccount].userId,
                    accountType |-> account'[NewAccount].accountType,
                    currency |-> account'[NewAccount].currency,
                    status |-> account'[NewAccount].status,
                    balance |-> toFixed8(0)])
    /\ UNCHANGED <<rowVersion, transactions, ledger, writeVars, balanceVars,
                   ledgerVars, dresult>>

CreateAccount == \E body \in AccountBodies : PostAccount(body[1], body[2], body[3])

(***************************************************************************)
(* DELETE statements on the storage.  No route of the API deletes; the     *)
(* foreign keys of LedgerEntry decide what any other client of the storage *)
(* can remove.                                                             *)
(***************************************************************************)
\* Mutant: the foreign keys take no action on a delete.
RestrictNever(entries, column, key) == FALSE

\* FOREIGN KEY (column) REFERENCES ... ON DELETE RESTRICT: the delete of a
\* row fails while a LedgerEntry row references it.
Restrict(entries, column, key) ==
    \E i \in 1..Len(entries) : entries[i][column] = key

\* DELETE FROM "Account" WHERE "id" = a.  The statement needs the row lock.
\* A transfer whose snapshot still has the row then fails on it.
DeleteAccount(a) ==
    /\ a \in DOMAIN account
    /\ lock[a] = NoOne
    /\ IF Restrict(ledger, "accountId", a)
       THEN /\ dresult' = "restricted"
            /\ UNCHANGED <<account, rowVersion>>
       ELSE /\ dresult' = "deleted"
            /\ account' = [x \in DOMAIN account \ {a} |-> account[x]]
            /\ rowVersion' = [rowVersion EXCEPT ![a] = Len(transactions) + 1]
    /\ UNCHANGED <<transactions, ledger, writeVars, balanceVars, ledgerVars,
                   aresult>>

\* DELETE FROM "Transaction" WHERE "id" = id
DeleteTransaction(id) ==
    /\ \E i \in 1..Len(transactions) : transactions[i].id = id
    /\ IF Restrict(ledger, "transactionId", id)
       THEN /\ dresult' = "restricted"
            /\ UNCHANGED transactions
       ELSE /\ dresult' = "deleted"
            /\ transactions' = SelectSeq(transactions, LAMBDA t : t.id # id)
    /\ UNCHANGED <<account, rowVersion, ledger, writeVars, balanceVars,
                   ledgerVars, aresult>>

\* Transfers without storage faults: the failures left are the ones the
\* code's own statements produce.
NextNoFault == \E p \in Procs : Transfer(p)

SpecNoFault == Init /\ [][NextNoFault]_vars

Next == \E p \in Procs : Transfer(p) \/ Fail(p)

\* Concurrent transfers, storage faults included.
Spec == Init /\ [][Next]_vars

\* The scenario of two transfers that overdraw one account together: the
\* source holds 90, each transfer moves 50 of it to another destination.
OverdrawPairs == { <<"a", "b">>, <<"a", "c">> }
OverdrawAmounts == {50}

NextOverdraw ==
    \E p \in Procs : TransferOf(p, OverdrawPairs,
                                {Number(m) : m \in OverdrawAmounts}, {"USD"})

SpecOverdraw == Init /\ [][NextOverdraw]_vars

\* Request bodies as clients may send them: the same account twice, by the
\* same string and by two spellings; a field left out; a well-formed uuid of
\* no row on either side; a string that is not a uuid; amounts that are
\* zero, negative, "NaN", not numeric, null, left out; currencies in lower
\* case, of another code than the accounts', of two characters, of three
\* characters that are not letters, left out.
RequestPairs == { <<"a", "b">>, <<"a", "a">>, <<"B", "b">>, <<"a", Missing>>,
                  <<"a", "d">>, <<"d", "a">>, <<"a", "x">> }
RequestAmounts == { Number(10), Number(0), Number(0 - 10), NaNText, Text,
                    NullValue, Undefined }
RequestCurrencies == { "USD", "usd", "EUR", "US", "12$", Missing }

NextRequest ==
    \E p \in Procs :
        TransferOf(p, RequestPairs, RequestAmounts, RequestCurrencies)

\* Transfers over every shape of request body.
SpecRequest == Init /\ [][NextRequest]_vars

NextRead == Transfer("h1") \/ Fail("h1") \/ Read

\* Transfers in both directions between two accounts, one of them named by
\* either spelling, with the storage's deadlock detection, under the
\* fairness the event loop and the storage give: a statement that can run
\* does run, a response that can be sent is sent, a deadlock is detected.
\* (Storage faults only end a transfer earlier.)
LivePairs == { <<"a", "b">>, <<"b", "a">>, <<"a", "B">> }
LiveAmounts == {10}

Step(p) ==
    \/ Lock1(p) \/ Lock2(p) \/ Check(p) \/ CreateTransaction(p)
    \/ CreateDebit(p) \/ CreateCredit(p) \/ UpdateBalances(p) \/ Commit(p)
    \/ Return(p) \/ Deadlock(p)

NextLive ==
    \E p \in Procs :
        \/ TransferOf(p, LivePairs, {Number(m) : m \in LiveAmounts}, {"USD"})
        \/ Deadlock(p)

SpecLive == Init /\ [][NextLive]_vars /\ \A p \in Procs : WF_vars(Step(p))

\* Every route of the API: account creation, the transfers of one handler
\* with storage faults, balance reads and ledger reads.
ApiPairs == { <<"a", "b">>, <<"a", "e">>, <<"e", "a">> }
ApiAmounts == {4}

NextApi ==
    \/ TransferOf("h1", ApiPairs, {Number(m) : m \in ApiAmounts}, {"USD"})
    \/ Fail("h1")
    \/ CreateAccount
    \/ Read
    \/ GetLedger("g1")

SpecApi == Init /\ [][NextApi]_vars

\* Two concurrent ledger reads of one account, while one handler moves
\* money to the account and then from the account to itself, named by two
\* spellings of its uuid.
LedgerPairs == { <<"a", "b">>, <<"B", "b">> }
LedgerAmounts == {10}

NextLedger ==
    \/ TransferOf("h1", LedgerPairs, {Number(m) : m \in LedgerAmounts},
                  {"USD"})
    \/ \E g \in LedgerReaders : GetLedger(g)

SpecLedger == Init /\ [][NextLedger]_vars

\* Two funded accounts and four accounts in all: the tables after the
\* seed's statements have run for a second funded account as well, and
\* POST /accounts has created the fourth account.
SecondSeedAccount == "c"
SecondSeedId == 0 - 1

InitDisjoint ==
    /\ account = [a \in Rows |->
           [userId |-> SeedUser(a), accountType |-> "checking",
            currency |-> "USD", status |-> "active",
            balance |-> IF a \in {SeedAccount, SecondSeedAccount}
                        THEN SeedAmount ELSE 0]]
    /\ transactions =
           <<TransactionRow(0, "initial_deposit", Null, SeedAccount,
                            SeedAmount, "USD", "completed"),
             TransactionRow(SecondSeedId, "initial_deposit", Null,
                            SecondSeedAccount, SeedAmount, "USD", "completed")>>
    /\ ledger = <<LedgerRow(0, SeedAccount, 0, "credit", SeedAmount, "USD"),
                  LedgerRow(SecondSeedId, SecondSeedAccount, SecondSeedId,
                            "credit", SeedAmount, "USD")>>
    /\ rowVersion = [a \in Rows |-> IF a = SeedAccount THEN 1
                                    ELSE IF a = SecondSeedAccount THEN 2
                                    ELSE 0]
    /\ lock = [a \in Rows |-> NoOne]
    /\ attempts = 0
    /\ pc = [p \in Procs |-> "idle"]
    /\ req = [p \in Procs |-> NoRequest]
    /\ tid = [p \in Procs |-> 0]
    /\ snap = [p \in Procs |-> NoSnapshot]
    /\ wTransaction = [p \in Procs |-> <<>>]
    /\ wLedger = [p \in Procs |-> <<>>]
    /\ wAccount = [p \in Procs |-> <<>>]
    /\ result = [p \in Procs |-> NoResponse]
    /\ rpc = "idle"
    /\ rid = Null
    /\ rresult = NoResponse
    /\ gpc = [g \in LedgerReaders |-> "idle"]
    /\ greq = [g \in LedgerReaders |-> NoLedgerRequest]
    /\ gat = [g \in LedgerReaders |-> <<0, 0>>]
    /\ gresult = [g \in LedgerReaders |-> NoLedgerResponse]
    /\ aresult = NoResponse
    /\ dresult = NoDelete

\* Concurrent transfers over two pairs of accounts that share no account,
\* the second pair in both directions, storage faults included.
DisjointPairs == { <<"a", "b">>, <<"c", "e">>, <<"e", "c">> }
DisjointAmounts == {10}

NextDisjoint ==
    \E p \in Procs :
        \/ TransferOf(p, DisjointPairs, {Number(m) : m \in DisjointAmounts},
                      {"USD"})
        \/ Fail(p)

SpecDisjoint == InitDisjoint /\ [][NextDisjoint]_vars

\* The transfers of one handler, account creation, and DELETE statements
\* that another client of the storage issues on accounts and on records.
DeleteIds == {"a", "b", "c"}
StoragePairs == { <<"a", "b">>, <<"a", "c">> }
StorageAmounts == {10}

NextStorage ==
    \/ TransferOf("h1", StoragePairs, {Number(m) : m \in StorageAmounts},
                  {"USD"})
    \/ Fail("h1")
    \/ CreateAccount
    \/ \E a \in DeleteIds : DeleteAccount(a)
    \/ \E i \in 1..Len(transactions) : DeleteTransaction(transactions[i].id)

SpecStorage == Init /\ [][NextStorage]_vars

\* One ledger reader with every shape of query string and the balance
\* reader, while one handler moves money to the account read.
NextQuery ==
    \/ TransferOf("h1", LedgerPairs, {Number(m) : m \in LedgerAmounts},
                  {"USD"})
    \/ GetLedgerQuery("g1")
    \/ Read

SpecQuery == Init /\ [][NextQuery]_vars

\* Balance reads concurrent with the transfers of one handler.
SpecRead == Init /\ [][NextRead]_vars

(***************************************************************************)
(* Vocabulary of the properties.                                           *)
(***************************************************************************)
RECURSIVE SumAmounts(_, _, _)
SumAmounts(entries, a, kind) ==
    IF entries = <<>> THEN 0
    ELSE LET rest == SumAmounts(SubSeq(entries, 1, Len(entries) - 1), a, kind)
             e == entries[Len(entries)]
         IN  IF e.accountId = a /\ e.entryType = kind THEN rest + e.amount
             ELSE rest

\* balance(A) = sum of A's credits - sum of A's debits.
DerivedBalance(entries, a) ==
    SumAmounts(entries, a, "credit") - SumAmounts(entries, a, "debit")

Range(seq) == {seq[i] : i \in 1..Len(seq)}

Tables == <<account, transactions, ledger>>

Committed(p) == pc[p] = "done" /\ result[p].status = 201
Rejected(p) == pc[p] = "done" /\ result[p].status # 201

\* The rows of `entries` that carry transaction id n, by kind and account.
EntriesOf(entries, n) == {e \in Range(entries) : e.transactionId = n}

\* The balance an account was seeded with, before any transfer.
InitialBalance(a) == IF a = SeedAccount THEN SeedAmount ELSE 0

\* C1: the ledger-derived balance of every account is >= 0 in every state
\* that any interleaving of transfer attempts, committed or rejected,
\* reaches from the seeded non-negative balances.
NonNegativeBalances ==
    \A a \in Accounts : DerivedBalance(ledger, a) >= 0

\* C2: two transfers that debit the same source for amounts each within its
\* balance and together above it, sent to different destinations and both
\* answered: exactly one committed, the other got 422 insufficient funds,
\* and the source holds its initial balance minus the committed amount.
OverdrawScenario(p, q) ==
    /\ pc[p] = "done" /\ pc[q] = "done"
    /\ tid[p] # 0 /\ tid[q] # 0
    /\ uuid(req[p].sourceAccountId) = uuid(req[q].sourceAccountId)
    /\ uuid(req[p].sourceAccountId) \in Accounts
    /\ uuid(req[p].destinationAccountId) \in Accounts
    /\ uuid(req[q].destinationAccountId) \in Accounts
    /\ uuid(req[p].destinationAccountId) # uuid(req[q].destinationAccountId)
    /\ uuid(req[p].destinationAccountId) # uuid(req[p].sourceAccountId)
    /\ uuid(req[q].destinationAccountId) # uuid(req[q].sourceAccountId)
    /\ req[p].amount <= InitialBalance(uuid(req[p].sourceAccountId))
    /\ req[q].amount <= InitialBalance(uuid(req[p].sourceAccountId))
    /\ req[p].amount + req[q].amount
           > InitialBalance(uuid(req[p].sourceAccountId))

OneCommitsOtherInsufficient ==
    \A p \in Procs, q \in Procs :
        (p # q /\ attempts = 2 /\ OverdrawScenario(p, q)) =>
            \E w \in {p, q} : \E l \in {p, q} \ {w} :
                /\ result[w].status = 201
                /\ result[l] = UnprocessableEntity("insufficient funds")
                /\ DerivedBalance(ledger, uuid(req[w].sourceAccountId))
                       = InitialBalance(uuid(req[w].sourceAccountId))
                             - req[w].amount

PairingInvariant ==
    \A t \in Range(transactions) :
        t.type = "transfer" =>
            /\ Cardinality({i \in 1..Len(ledger) :
                               ledger[i].transactionId = t.id}) = 2
            /\ \E d \in EntriesOf(ledger, t.id) :
                   /\ d.entryType = "debit"
                   /\ d.accountId = t.sourceAccountId
                   /\ d.amount = t.amount /\ d.currency = t.currency
            /\ \E c \in EntriesOf(ledger, t.id) :
                   /\ c.entryType = "credit"
                   /\ c.accountId = t.destinationAccountId
                   /\ c.amount = t.amount /\ c.currency = t.currency

\* C4 witness: two transfers are committed.
TwoTransfersCommitted ==
    Cardinality({i \in 1..Len(transactions) :
                    transactions[i].type = "transfer"}) = 2

\* C5: whoever reads while a transfer runs sees of that transfer either its
\* transaction record, its debit and its credit, or none of the three.  A
\* read outside a storage transaction returns the committed tables of the
\* state it runs in; another transfer reads the tables as of its snapshot.
AllOrNone(records, entries, n) ==
    LET hasRecord == \E t \in Range(records) : t.id = n
        hasDebit  == \E e \in EntriesOf(entries, n) : e.entryType = "debit"
        hasCredit == \E e \in EntriesOf(entries, n) : e.entryType = "credit"
    IN  (hasRecord /\ hasDebit /\ hasCredit)
            \/ (~hasRecord /\ ~hasDebit /\ ~hasCredit)

NoPartialTransferVisible ==
    \A n \in 1..MaxTransfers :
        /\ AllOrNone(transactions, ledger, n)
        /\ \A q \in Procs :
               (InTransaction(q) /\ tid[q] # n) =>
                   AllOrNone(SubSeq(transactions, 1, snap[q].transactions),
                             Visible(q), n)

\* C5 witness: one transfer has written its record and its debit but not
\* its credit, while another transfer is reading the ledger for its check
\* and an earlier transfer is committed.
ReadDuringPartialWrite ==
    \E p \in Procs, q \in Procs :
        /\ p # q
        /\ pc[p] = "createCredit" /\ Len(wLedger[p]) = 1
        /\ pc[q] = "check"

\* C6: no set of transfers waits for each other's account locks in a cycle.
NoLockCycle ==
    \A p \in Procs : ~WaitsTransitively(p, p, Cardinality(Procs))

\* C7: a transfer X->Y and a transfer Y->X request the locks of the two
\* accounts in the same order, the smaller account identifier first: no
\* transfer requests the lock of a smaller identifier while it holds the
\* lock of a larger one.
LocksInIdentifierOrder ==
    \A p \in Procs : \A held \in Accounts : \A wanted \in Accounts :
        ( /\ pc[p] = "lock2"
          /\ lock[held] = p
          /\ wanted = uuid(lockedIds(req[p].sourceAccountId,
                                     req[p].destinationAccountId)[2]) )
            => CodeUnitRank(held) <= CodeUnitRank(wanted)

\* C8: a committed transfer of m from A to another account B lowers A's
\* derived balance by m, raises B's by m, adds one debit of m on A and one
\* credit of m on B, both with the new transaction id, and answers with
\* that record, status completed.
CommitStep(p) == pc[p] = "commit" /\ pc'[p] = "done" /\ result'[p].status = 201

TransferMovesExactAmount ==
    [][ \A p \in Procs :
          ( /\ CommitStep(p)
            /\ uuid(req[p].sourceAccountId)
                   # uuid(req[p].destinationAccountId) ) =>
            LET A == uuid(req[p].sourceAccountId)
                B == uuid(req[p].destinationAccountId)
                m == req[p].amount
                id == result'[p].body.id
            IN  /\ DerivedBalance(ledger', A) = DerivedBalance(ledger, A) - m
                /\ DerivedBalance(ledger', B) = DerivedBalance(ledger, B) + m
                /\ Len(ledger') = Len(ledger) + 2
                /\ EntriesOf(ledger, id) = {}
                /\ \E d \in EntriesOf(ledger', id) :
                       d.entryType = "debit" /\ d.accountId = A /\ d.amount = m
                /\ \E c \in EntriesOf(ledger', id) :
                       c.entryType = "credit" /\ c.accountId = B /\ c.amount = m
                /\ result'[p].body.status = "completed"
                /\ result'[p].body \in Range(transactions') ]_vars

\* C9: GET /accounts/:id answers with the sum of the account's credits minus
\* the sum of its debits over the ledger as it is when the balance is read,
\* 0 for an account without entries, whatever the stored balance column.
BalanceIsCreditsMinusDebits ==
    [][ GetAccountBalance =>
          /\ rresult'.status = 200
          /\ rresult'.body.id = rid
          /\ rresult'.body.balance
                 = SumAmounts(ledger, rid, "credit")
                       - SumAmounts(ledger, rid, "debit") ]_vars

\* C9 witness: a balance was answered for an account that has credits and
\* debits and whose stored balance column holds another value.
BalanceReadWithDebits ==
    /\ rpc = "done" /\ rresult.status = 200
    /\ SumAmounts(ledger, rid, "debit") > 0
    /\ SumAmounts(ledger, rid, "credit") > 0
    /\ rresult.body.balance = DerivedBalance(ledger, rid)
    /\ account[rid].balance # rresult.body.balance

\* C10: when the decision is taken on a source whose derived balance is
\* below the amount, the answer is 422 "insufficient funds", and no ledger
\* entry and no transaction record is written or left pending.
InsufficientFundsRejected ==
    [][ \A p \in Procs :
          ( /\ Check(p)
            /\ findUnique(snap[p].accounts, req[p].sourceAccountId)
            /\ findUnique(snap[p].accounts, req[p].destinationAccountId)
            /\ DerivedBalance(Visible(p), uuid(req[p].sourceAccountId))
                   < req[p].amount ) =>
            /\ pc'[p] = "done"
            /\ result'[p].status = 422
            /\ result'[p].error = "insufficient funds"
            /\ Tables' = Tables
            /\ wTransaction'[p] = <<>> /\ wLedger'[p] = <<>>
            /\ wAccount'[p] = <<>> ]_vars

\* C10 witness: a transfer was answered 422 insufficient funds for a source
\* that holds a positive balance.
RejectedForInsufficientFunds ==
    \E p \in Procs :
        /\ pc[p] = "done"
        /\ result[p] = UnprocessableEntity("insufficient funds")
        /\ DerivedBalance(ledger, uuid(req[p].sourceAccountId)) > 0

\* C11: the source balance a transfer validates against is read while the
\* transfer holds the locks of both accounts; it is the balance over every
\* committed entry of the source account, and no uncommitted entry of
\* another transfer is among the entries it reads.
BalanceReadUnderLocks ==
    [][ \A p \in Procs :
          ( /\ Check(p)
            /\ findUnique(snap[p].accounts, req[p].sourceAccountId)
            /\ findUnique(snap[p].accounts, req[p].destinationAccountId) ) =>
            LET A == uuid(req[p].sourceAccountId)
                B == uuid(req[p].destinationAccountId)
            IN  /\ lock[A] = p /\ lock[B] = p
                /\ findMany(Visible(p), A) = findMany(ledger, A)
                /\ getBalance(Visible(p), A) = DerivedBalance(ledger, A)
                /\ \A q \in Procs \ {p} :
                       Range(wLedger[q]) \cap Range(Visible(p)) = {} ]_vars

\* C11 witness: a transfer has passed its check on a source whose ledger
\* holds the debit of a transfer that another call committed before.
CheckedAfterEarlierCommit ==
    \E p \in Procs :
        /\ pc[p] = "createTransaction"
        /\ lock[uuid(req[p].sourceAccountId)] = p
        /\ \E e \in Range(ledger) :
               /\ e.accountId = uuid(req[p].sourceAccountId)
               /\ e.entryType = "debit"

\* The currencies of RequestCurrencies that are 3-letter codes.
ThreeLetterCodes == {"USD", "usd", "EUR"}

\* C12: a request with the same account as source and as destination, with
\* a zero or negative amount, with a currency that is not a 3-letter code or
\* with a missing field is answered 400, and the step that answers it
\* requests no lock and reads and writes no storage.  (Amounts that do not
\* parse are the subject of C13.)
InvalidRequest(s, d, m, c) ==
    \/ s = Missing \/ d = Missing \/ m = Undefined \/ c = Missing
    \/ uuid(s) = uuid(d)
    \/ m.kind = "number" /\ m.value <= 0
    \/ c \notin ThreeLetterCodes

InvalidRequestRejected ==
    [][ \A p \in Procs : \A sd \in RequestPairs : \A m \in RequestAmounts :
          \A c \in RequestCurrencies :
            ( /\ PostTransfer(p, sd[1], sd[2], m, c)
              /\ m.kind \in {"number", "undefined"}
              /\ InvalidRequest(sd[1], sd[2], m, c) ) =>
                /\ pc'[p] = "done"
                /\ result'[p].status = 400
                /\ UNCHANGED <<dbVars, lock, txVars>> ]_vars

\* C13: a request whose amount does not parse as a decimal number (a string
\* that is no number, null), all fields present and the accounts distinct,
\* is answered 400, not 500.
UnparsableAmountRejected ==
    [][ \A p \in Procs : \A sd \in RequestPairs : \A m \in RequestAmounts :
          \A c \in RequestCurrencies :
            ( /\ PostTransfer(p, sd[1], sd[2], m, c)
              /\ m \in {Text, NullValue, NaNText}
              /\ sd[1] # Missing /\ sd[2] # Missing /\ c # Missing ) =>
                /\ pc'[p] = "done"
                /\ result'[p].status = 400 ]_vars

\* C14: a transfer whose source or destination is no account ends with an
\* answer that is neither the insufficient-funds answer nor the answer of
\* an internal failure, and changes no table.
MissingAccount(p) ==
    \/ uuid(req[p].sourceAccountId) \notin DOMAIN account
    \/ uuid(req[p].destinationAccountId) \notin DOMAIN account

MissingAccountIsNotFound ==
    [][ \A p \in Procs :
          ( /\ InTransaction(p) /\ MissingAccount(p)
            /\ pc'[p] = "done" ) =>
              /\ result'[p].status \notin {201, 500}
              /\ result'[p] # UnprocessableEntity("insufficient funds")
              /\ result'[p] # InternalError
              /\ Tables' = Tables ]_vars

\* C15: in every committed state the currency of every ledger entry is the
\* currency of the account it is booked on: no transfer stated in another
\* currency than its accounts' commits.
EntryCurrencyMatchesAccount ==
    \A e \in Range(ledger) :
        e.accountId \in DOMAIN account
            => e.currency = account[e.accountId].currency

\* C16: the ledger and the transaction table are append-only: whatever the
\* operation (account creation, balance read, ledger read, a transfer that
\* commits, is rejected or fails), every ledger entry and every transaction
\* record of the state before it is in the state after it, at the same
\* place and with the same fields.
AppendOnly ==
    [][ /\ Len(ledger') >= Len(ledger)
        /\ SubSeq(ledger', 1, Len(ledger)) = ledger
        /\ Len(transactions') >= Len(transactions)
        /\ SubSeq(transactions', 1, Len(transactions)) = transactions ]_vars

\* C16 witness: after a committed transfer, an account was created, a
\* transfer was rejected, and a balance and a ledger page were read.
OperationsAfterCommit ==
    /\ Len(transactions) = 2 /\ Len(ledger) = 3
    /\ NewAccount \in DOMAIN account
    /\ pc["h1"] = "done" /\ result["h1"].status = 422
    /\ rpc = "done" /\ rresult.status = 200
    /\ gpc["g1"] = "done" /\ gresult["g1"].status = 200

\* C17: in every committed state the stored balance column of every account
\* equals the account's balance derived from the ledger.
StoredBalanceMatchesLedger ==
    \A a \in DOMAIN account :
        account[a].balance = DerivedBalance(ledger, a)

\* C20: two ledger reads of the same account with the same limit and
\* offset, all of whose statements ran against the same committed ledger,
\* answer with the same entries in the same order and the same total.
RepeatedLedgerReadsAgree ==
    \A g \in LedgerReaders : \A h \in LedgerReaders :
        ( /\ gpc[g] = "done" /\ gpc[h] = "done"
          /\ greq[g] = greq[h]
          /\ gat[g][1] = gat[g][2] /\ gat[h][1] = gat[h][2]
          /\ gat[g][1] = gat[h][1] ) =>
            /\ gresult[g].entries = gresult[h].entries
            /\ gresult[g].total = gresult[h].total

\* C18: a transfer that the storage ends with a serialization failure at a
\* lock statement gets an answer the caller can tell from the answer of an
\* internal failure.
SerializationFailure(p) ==
    /\ pc[p] \in {"lock1", "lock2"}
    /\ LET id == lockedIds(req[p].sourceAccountId,
                           req[p].destinationAccountId)
                     [IF pc[p] = "lock1" THEN 1 ELSE 2]
       IN  /\ IsUuid(id)
           /\ uuid(id) \in snap[p].accounts
           /\ lock[uuid(id)] \in {NoOne, p}
           /\ rowVersion[uuid(id)] > snap[p].transactions

ConflictIsRetryable ==
    [][ \A p \in Procs :
          (SerializationFailure(p) /\ pc'[p] = "done") =>
              /\ result'[p].status # 500
              /\ result'[p] # InternalError ]_vars

\* C19: a transfer that has ended holds no account lock and has no write
\* pending, and under fair scheduling every transfer that has started ends,
\* committed (201) or rolled back (an error answer).
Terminated(p) == pc[p] \in {"idle", "done"}

TransfersTerminate ==
    /\ [](\A p \in Procs :
             Terminated(p) =>
                 /\ \A a \in Rows : lock[a] # p
                 /\ wTransaction[p] = <<>> /\ wLedger[p] = <<>>
                 /\ wAccount[p] = <<>>)
    /\ \A p \in Procs :
           InTransaction(p) ~>
               (pc[p] = "done" /\ result[p].status \in {201, 422, 500})

\* C19 witness: of two transfers that waited for each other's lock, one was
\* ended and holds no lock, and the other holds both locks and has gone on
\* to its check.
WaiterProceeds ==
    \E p \in Procs : \E q \in Procs \ {p} :
        /\ pc[p] = "done" /\ result[p] = InternalError
        /\ req[p].sourceAccountId = "a" /\ req[p].destinationAccountId = "B"
        /\ Len(transactions) = 1
        /\ pc[q] = "check" /\ req[q].sourceAccountId = "b"
        /\ lock["a"] = q /\ lock["b"] = q

\* The positions in the ledger of the entries of an account.
EntriesOfAccount(id) == {i \in 1..Len(ledger) : ledger[i].accountId = uuid(id)}

\* C21: a ledger read of an account answers with entries of that account
\* only, newest first by creation time, the page that limit and offset cut
\* out of them, and with a total that is the number of all entries of the
\* account when it is counted, whatever limit and offset are.
LedgerPageOfAccount ==
    [][ \A g \in LedgerReaders :
          /\ (gpc[g] = "idle" /\ gpc'[g] = "entries") =>
                 gresult'[g].total = Cardinality(EntriesOfAccount(greq'[g].id))
          /\ (gpc[g] = "entries" /\ gpc'[g] = "done") =>
                 LET page == gresult'[g].entries
                     n == Cardinality(EntriesOfAccount(greq[g].id))
                     rest == IF n > greq[g].offset THEN n - greq[g].offset
                             ELSE 0
                 IN  /\ gresult'[g].status = 200
                     /\ gresult'[g].total = gresult[g].total
                     /\ Len(page) = Min(greq[g].limit, rest)
                     /\ \A i \in 1..Len(page) :
                            /\ page[i] \in Range(ledger)
                            /\ page[i].accountId = uuid(greq[g].id)
                     /\ \A i \in 1..Len(page) : \A j \in 1..Len(page) :
                            i < j => /\ page[i] # page[j]
                                     /\ createdAt(page[i]) >= createdAt(page[j])
                     /\ Len(page) > 0 =>
                            Cardinality({i \in EntriesOfAccount(greq[g].id) :
                                createdAt(ledger[i]) > createdAt(page[1])})
                                <= greq[g].offset ]_vars

\* C21 witness: a read with offset 1 of an account with three entries was
\* answered with total 3 and the two older entries, of different
\* transactions.
SecondPageRead ==
    \E g \in LedgerReaders :
        /\ gpc[g] = "done" /\ gresult[g].status = 200
        /\ greq[g].offset = 1 /\ gresult[g].total = 3
        /\ Len(gresult[g].entries) = 2
        /\ createdAt(gresult[g].entries[1]) > createdAt(gresult[g].entries[2])

\* The sum of the derived balances of a set of accounts.
RECURSIVE SumOfBalances(_, _)
SumOfBalances(entries, accounts) ==
    IF accounts = {} THEN 0
    ELSE LET a == CHOOSE x \in accounts : TRUE
         IN  DerivedBalance(entries, a) + SumOfBalances(entries, accounts \ {a})

\* C22: every step of a transfer attempt, committed, rejected or failed,
\* under any interleaving, leaves the sum of the derived balances of all
\* accounts as it was.
ValueConserved ==
    [][ SumOfBalances(ledger', Rows) = SumOfBalances(ledger, Rows) ]_vars

\* C22 witness: a transfer is committed whose stored amount is not the
\* requested one, and the other call's transfer was rejected.
RoundedTransferCommitted ==
    \E p \in Procs : \E q \in Procs \ {p} :
        /\ Committed(p) /\ result[p].body.amount # req[p].amount
        /\ Rejected(q) /\ tid[q] # 0

TransferEndsDistinct ==
    \A t \in Range(transactions) :
        t.type = "transfer" =>
            /\ t.sourceAccountId # Null
            /\ t.destinationAccountId # Null
            /\ t.sourceAccountId # t.destinationAccountId

\* C25: every stored ledger entry has an amount above 0 and is a debit or a
\* credit, whatever positive amount the transfer was accepted with.
EntryAmountsPositive ==
    \A e \in Range(ledger) :
        /\ e.amount > 0
        /\ e.entryType \in {"debit", "credit"}

\* C26: the amount on the transaction record and on both ledger entries of
\* a committed transfer is the requested decimal: for an amount of at most
\* 8 decimals, which the columns can hold, nothing is rounded.
AmountsRecordedExactly ==
    [][ \A p \in Procs :
          (CommitStep(p) /\ req[p].amount % Quantum = 0) =>
              /\ result'[p].body.amount = req[p].amount
              /\ \A e \in EntriesOf(ledger', result'[p].body.id) :
                     e.amount = req[p].amount ]_vars

\* The accounts a request names, as rows.
AccountsOf(request) ==
    {uuid(request.sourceAccountId), uuid(request.destinationAccountId)}

\* Two transfers in their storage transactions that share no account.
DisjointInFlight(p, q) ==
    /\ p # q
    /\ InTransaction(p)
    /\ InTransaction(q)
    /\ AccountsOf(req[p]) \cap AccountsOf(req[q]) = {}

\* C27: of two concurrent transfers that share no account, neither waits
\* for a lock the other holds, and the commit of one leaves the rows of the
\* other, their locks and what the other has written as they were, so that
\* the other can commit after it, whichever commits first.
DisjointTransfersIndependent ==
    /\ [](\A p \in Procs : \A q \in Procs :
             DisjointInFlight(p, q) => ~Waits(p, q))
    /\ [][ \A p \in Procs : \A q \in Procs :
             (DisjointInFlight(p, q) /\ CommitStep(p)) =>
                 /\ pc'[q] = pc[q]
                 /\ \A a \in AccountsOf(req[q]) :
                        /\ rowVersion'[a] = rowVersion[a]
                        /\ lock'[a] = lock[a]
                        /\ a \in DOMAIN account => account'[a] = account[a]
                 /\ <<wTransaction'[q], wLedger'[q], wAccount'[q]>>
                        = <<wTransaction[q], wLedger[q], wAccount[q]>>
                 /\ pc[q] = "commit" => ENABLED Commit(q) ]_vars

\* Both transfers started before either committed, they share no account,
\* both committed, and the one that started second committed first.
DisjointBothCommitted ==
    /\ \A p \in Procs : pc[p] = "done" /\ result[p].status = 201
                        /\ snap[p].transactions = 2
    /\ AccountsOf(req["h1"]) \cap AccountsOf(req["h2"]) = {}
    /\ Len(transactions) = 4
    /\ transactions[3].id = 2

AccountCreatedEmpty ==
    [][ /\ (NewAccount \notin DOMAIN account
              /\ NewAccount \in DOMAIN account') =>
               /\ account'[NewAccount].status = "active"
               /\ aresult'.status = 201
               /\ aresult'.body.id = NewAccount
               /\ aresult'.body.status = "active"
               /\ aresult'.body.balance = 0
               /\ ledger' = ledger
               /\ transactions' = transactions
               /\ DerivedBalance(ledger', NewAccount) = 0
        /\ (rpc = "balance" /\ rpc' = "done" /\ rid = NewAccount
              /\ findMany(ledger, NewAccount) = <<>>) =>
               /\ rresult'.status = 200
               /\ rresult'.body.id = NewAccount
               /\ rresult'.body.status = "active"
               /\ rresult'.body.balance = 0 ]_vars

\* The account was created and then read, and the tables hold no record
\* and no entry beyond the seed's.
CreatedAccountRead ==
    /\ aresult.status = 201
    /\ rpc = "done"
    /\ rid = NewAccount
    /\ rresult.status = 200
    /\ rresult.body.balance = 0
    /\ Len(transactions) = 1
    /\ Len(ledger) = 1

\* What of an account row a transfer has no business with.
Identity(row) ==
    [userId |-> row.userId, accountType |-> row.accountType,
     currency |-> row.currency, status |-> row.status]

\* C30: no step of a transfer, committed, rejected or failed, creates or
\* removes an account or changes the owner, classification, currency or
\* status of one; the row and the ledger entries of an account change only
\* in the step that commits a transfer naming it as source or destination.
TransferFrame ==
    [][ /\ DOMAIN account' = DOMAIN account
        /\ \A a \in DOMAIN account :
              /\ Identity(account'[a]) = Identity(account[a])
              /\ (account'[a] # account[a]
                     \/ findMany(ledger', a) # findMany(ledger, a)) =>
                    \E p \in Procs :
                        CommitStep(p) /\ a \in AccountsOf(req[p]) ]_vars

\* A transfer from a to b committed and changed the stored balance of
\* both; the row of c and its entries are those of the seed.
UninvolvedUntouched ==
    \E p \in Procs :
        /\ Committed(p)
        /\ AccountsOf(req[p]) = {"a", "b"}
        /\ account["a"].balance # SeedAmount
        /\ account["b"].balance # 0
        /\ account["c"].balance = 0
        /\ findMany(ledger, "c") = <<>>

\* The positions of a transfer, in the order of its statements.
StepOrder ==
    { <<"idle", "lock1">>, <<"lock1", "lock2">>, <<"lock2", "check">>,
      <<"check", "createTransaction">>, <<"createTransaction", "createDebit">>,
      <<"createDebit", "createCredit">>, <<"createCredit", "updateBalances">>,
      <<"updateBalances", "commit">>, <<"commit", "done">>,
      <<"done", "idle">> }

\* The source balance a transfer computes at its check: from the entries of
\* its snapshot, before any write of its own.
CheckedBalance(p) ==
    getBalance(SubSeq(ledger, 1, snap[p].ledger), req[p].sourceAccountId)

\* C31: a transfer goes through lock, compute, decide, write, commit in
\* that order, or ends from any of them; while it has written a transaction
\* record, a ledger entry or a balance, it is past its check, it holds the
\* lock of both its accounts, both accounts exist for it and the source
\* balance it computed is at least the amount.
WritesAfterLockAndCheck ==
    /\ [](\A p \in Procs :
             (wTransaction[p] # <<>> \/ wLedger[p] # <<>> \/ wAccount[p] # <<>>)
             => /\ pc[p] \in {"createDebit", "createCredit", "updateBalances",
                              "commit"}
                /\ \A a \in AccountsOf(req[p]) :
                       a \in snap[p].accounts /\ lock[a] = p
                /\ CheckedBalance(p) >= req[p].amount)
    /\ [][ \A p \in Procs :
             pc'[p] # pc[p] =>
                 \/ <<pc[p], pc'[p]>> \in StepOrder
                 \/ pc'[p] = "done" /\ result'[p].status # 201 ]_vars

\* A transfer from a to b has written its record, both entries and both
\* balances and holds both locks, while the other handler waits for one.
WrittenUnderBothLocks ==
    \E p \in Procs : \E q \in Procs :
        /\ pc[p] = "commit"
        /\ wTransaction[p] # <<>>
        /\ Len(wLedger[p]) = 2
        /\ AccountsOf(req[p]) = {"a", "b"}
        /\ lock["a"] = p /\ lock["b"] = p
        /\ Waits(q, p)

\* C32: a transfer of exactly the derived balance of its source passes the
\* check, and when it commits the derived balance of the source is 0.
ExactBalanceTransferEmptiesSource ==
    [][ \A p \in Procs :
          LET source == req[p].sourceAccountId
          IN  /\ (pc[p] = "check" /\ pc'[p] # "check"
                    /\ findUnique(snap[p].accounts, source)
                    /\ findUnique(snap[p].accounts, req[p].destinationAccountId)
                    /\ CheckedBalance(p) = req[p].amount) =>
                     pc'[p] = "createTransaction" \/ result'[p].status = 500
              /\ (CommitStep(p) /\ getBalance(ledger, source) = req[p].amount)
                     => getBalance(ledger', source) = 0 ]_vars

\* C33: no step of a balance read or of a ledger read, standalone or while
\* a transfer is in flight, changes an account row, a stored balance, a
\* transaction record, a ledger entry, a row lock or anything a transfer
\* has written or holds.
ReadsArePure ==
    [][ (rpc' # rpc \/ \E g \in LedgerReaders : gpc'[g] # gpc[g]) =>
            /\ UNCHANGED <<account, rowVersion, transactions, ledger>>
            /\ UNCHANGED <<lock, pc, req, snap, wTransaction, wLedger,
                           wAccount, result>> ]_vars

\* A balance read of a and a ledger read of b were both answered while a
\* transfer from a to b held the locks of both and had written its entries.
ReadsDuringTransfer ==
    /\ rpc = "done" /\ rresult.status = 200 /\ rid = "a"
    /\ gpc["g1"] = "done" /\ gresult["g1"].status = 200
    /\ greq["g1"].id = "b"
    /\ pc["h1"] = "commit"
    /\ lock["a"] = "h1" /\ lock["b"] = "h1"
    /\ Len(wLedger["h1"]) = 2

\* C34: in every state of the committed tables each ledger entry names an
\* account that exists and a transaction record that exists; no step,
\* a DELETE statement on the storage included, removes an account or a
\* transaction record that a ledger entry names.
ReferencesExist ==
    /\ [](\A e \in Range(ledger) :
             /\ e.accountId \in DOMAIN account
             /\ \E t \in Range(transactions) : t.id = e.transactionId)
    /\ [][ \A e \in Range(ledger) :
             /\ e.accountId \in DOMAIN account'
             /\ \E t \in Range(transactions') : t.id = e.transactionId ]_vars

\* A transfer to b committed; the delete of an account or record that its
\* entries name was refused, and the delete of the account c, which no
\* entry names, went through.
DeleteRefused ==
    /\ dresult = "restricted"
    /\ \E e \in Range(ledger) : e.accountId = "b"
    /\ "c" \notin DOMAIN account

\* Two answered ledger reads of one account with limit 1, the first at
\* offset 0 and the second at offset 1, all of whose statements ran against
\* the same committed ledger.
ConsecutivePages(g, h) ==
    /\ g # h
    /\ gpc[g] = "done" /\ gresult[g].status = 200
    /\ gpc[h] = "done" /\ gresult[h].status = 200
    /\ greq[g].id = greq[h].id
    /\ greq[g].limit = 1 /\ greq[g].offset = 0
    /\ greq[h].limit = 1 /\ greq[h].offset = 1
    /\ gat[g] = gat[h]
    /\ gat[g][1] = gat[g][2]

\* C35: with no transfer committed in between, the pages read with a fixed
\* limit at consecutive offsets hold every entry of the account exactly
\* once: the first two pages of limit 1 share no entry and together hold
\* as many entries as the account has, up to two, also when entries have
\* the same creation time.
PagesReturnEachEntryOnce ==
    \A g \in LedgerReaders : \A h \in LedgerReaders :
        ConsecutivePages(g, h) =>
            /\ Range(gresult[g].entries) \cap Range(gresult[h].entries) = {}
            /\ Cardinality(Range(gresult[g].entries)
                              \cup Range(gresult[h].entries))
                   = Min(2, gresult[g].total)

\* C36: whatever limit and offset the query carries, an answered ledger read
\* returns at least 0 and at most min(effective limit, 1000) entries, the
\* effective limit being 100 for a limit left out, unparsable or 0; for a
\* negative limit, where that bound is below 0, it returns no entry.
PageSizeWithinLimit ==
    \A g \in LedgerReaders :
        (gpc[g] = "done" /\ gresult[g].status = 200) =>
            /\ gresult[g].limit <= MaxLimit
            /\ Len(gresult[g].entries) >= 0
            /\ Len(gresult[g].entries) <=
                   (IF gresult[g].limit < 0 THEN 0 ELSE gresult[g].limit)

EntriesWhenRead(g) ==
    findMany(SubSeq(ledger, 1, gat[g][2]), greq[g].id)

====
